---- MODULE Spec2Model ----
(***************************************************************************)
(* Distillation training orchestrator of StudentGaussianIAF/train.py:      *)
(* argument handling, model/optimizer/iterator/updater construction, the   *)
(* chainer Trainer loop with its extensions (ExponentialShift, Evaluator,  *)
(* LogReport, snapshot), and resume from a snapshot.                       *)
(*                                                                         *)
(* Numbers are fixed point.  Parameters are integers in "parameter units"  *)
(* (the base learning rate params.lr is Lr units); gradients and Adam's    *)
(* first moment are in thousandths (Milli), Adam's second moment in        *)
(* millionths.  Adam's hyperparameter alpha is kept exact, as the fraction *)
(* num/den: dividing by len(args.gpus) and multiplying by 0.5 are exact.   *)
(***************************************************************************)
EXTENDS Integers, Sequences, FiniteSets, TLC

(* ------------------------------ bounds --------------------------------- *)
MaxDevices == 2
MaxPrefetch == 2
Batchsize == 3
TrainLen == 4
ValidLen == 2
StopIter == 5
AnnealInterval == 2
EvaluateInterval == 3
SnapshotInterval == 2
ReportInterval == 1
MaxRestarts == 1

(* ------------------------- program constants --------------------------- *)
Lr == 48
ClipThreshold == 10
ShiftRateDen == 2
TeacherPre == 100
EncoderPre == 20
StudentInit == 0
GradGain == 15
Milli == 1000
Beta1Milli == 900
Beta2Micro == 999000
Micro == Milli * Milli

ParamNames == {"student", "teacher", "encoder"}

(* ------------------------------ arithmetic ----------------------------- *)
Abs(x) == IF x < 0 THEN -x ELSE x

Min(a, b) == IF a <= b THEN a ELSE b

(* division rounding toward zero, the same for both signs (b > 0) *)
Div(a, b) == IF a >= 0 THEN a \div b ELSE -((-a) \div b)

RECURSIVE Pow(_, _)
Pow(b, e) == IF e = 0 THEN 1 ELSE b * Pow(b, e - 1)

(* integer square root by Newton's iteration from above *)
RECURSIVE ISqrtIter(_, _)
ISqrtIter(n, x) ==
    CHOOSE r \in {IF y >= x THEN x ELSE ISqrtIter(n, y) :
                    y \in {(x + n \div x) \div 2}} : TRUE

ISqrt(n) == IF n <= 0 THEN 0 ELSE CHOOSE r \in {ISqrtIter(k, k) : k \in {n}} : TRUE

RECURSIVE SumSeq(_)
SumSeq(s) == IF s = <<>> THEN 0 ELSE Head(s) + SumSeq(Tail(s))

(* beta^t in fixed point, as the update rule's bias correction needs it *)
RECURSIVE Beta1Pow(_)
Beta1Pow(t) == IF t = 0 THEN Milli ELSE (Beta1Pow(t - 1) * Beta1Milli) \div Milli

RECURSIVE Beta2Pow(_)
Beta2Pow(t) == IF t = 0 THEN Micro ELSE (Beta2Pow(t - 1) * (Beta2Micro \div Milli)) \div Milli

(* --------------------------- the networks ------------------------------ *)
(* DistilModel(encoder, teacher, student): one scalar parameter per        *)
(* sub-network.  The encoder upsamples the features of a sample to its     *)
(* conditioning, the teacher scores the student's output against it.       *)
Feature(s) == s

Conditioning(m, s) == m.encoder * Feature(s)

Residual(m, s) == m.student - (m.teacher + Conditioning(m, s))

SampleLoss(m, s) == Abs(Residual(m, s))

(* gradient of one sample's loss in every parameter, in Milli *)
SampleGrad(m, s) ==
    LET r == Residual(m, s) * GradGain
    IN  [student |-> r, teacher |-> -r, encoder |-> -r * Feature(s)]

ZeroGrad == [p \in ParamNames |-> 0]

(* loss of a (sub-)batch is the mean over its samples; so is its gradient *)
BatchGrad(m, b) ==
    IF b = <<>> THEN ZeroGrad
    ELSE [p \in ParamNames |->
            Div(SumSeq([i \in 1..Len(b) |-> SampleGrad(m, b[i])[p]]), Len(b))]

BatchLoss(m, b) ==
    IF b = <<>> THEN 0
    ELSE SumSeq([i \in 1..Len(b) |-> SampleLoss(m, b[i])]) \div Len(b)

AddGrads(g, h) == [p \in ParamNames |-> g[p] + h[p]]

(* --------------------------- the optimizer ----------------------------- *)
(* chainer.optimizer.GradientClipping(10): global norm over every          *)
(* parameter of the target link, frozen ones included.                     *)
GradNorm(g) == ISqrt(g.student * g.student + g.teacher * g.teacher
                     + g.encoder * g.encoder)

ClipGrads(g) ==
    LET norm == GradNorm(g)
    IN  IF norm > ClipThreshold * Milli
        THEN [p \in ParamNames |-> Div(g[p] * ClipThreshold * Milli, norm)]
        ELSE g

InitRuleState == [m |-> 0, v |-> 0]

(* Adam's update rule for one parameter: returns the new value and state.  *)
(* eps (1e-8) is below the resolution; it only keeps 0/0 at 0.             *)
AdamUpdate(w, st, g, alpha, t) ==
    LET m     == st.m + Div((g - st.m) * (Milli - Beta1Milli), Milli)
        v     == st.v + Div(g * g - st.v, Milli) * ((Micro - Beta2Micro) \div Milli)
        fix1  == Milli - Beta1Pow(t)
        fix2  == Micro - Beta2Pow(t)
        mhat  == Div(m * Milli, fix1)
        vhat  == Div(v * Milli, fix2)
        sq    == ISqrt(vhat * Milli)
        step  == IF sq = 0 THEN 0 ELSE Div(alpha.num * mhat, alpha.den * sq)
    IN  [w |-> w - step, st |-> [m |-> m, v |-> v]]

(* the hyperparameter alpha as an exact fraction *)
Alpha(num, den) == [num |-> num, den |-> den]

(* chainer.optimizers.Adam(params.lr / len(args.gpus)) *)
InitialAlpha(gpus) == Alpha(Lr, Len(gpus))

(* optimizer.setup(model): an update rule, enabled, for every parameter *)
OptimizerSetup(alpha) ==
    [alpha |-> alpha, t |-> 0,
     rule |-> [p \in ParamNames |-> InitRuleState],
     enabled |-> [p \in ParamNames |-> TRUE]]

(* variant: the flag of the update rule is left as it was *)
DisableUpdateNoop(o, p) == o

(* link.disable_update(): switches the update rule of the link's params off *)
DisableUpdate(o, p) == [o EXCEPT !.enabled[p] = FALSE]

(* optimizer.update(): hooks, t += 1, then every enabled rule updates *)
OptimizerUpdate(o, m, grad) ==
    LET g  == ClipGrads(grad)
        t  == o.t + 1
        up == [p \in ParamNames |-> AdamUpdate(m[p], o.rule[p], g[p], o.alpha, t)]
    IN  [model |-> [p \in ParamNames |-> IF o.enabled[p] THEN up[p].w ELSE m[p]],
         opt   |-> [o EXCEPT !.t = t,
                      !.rule = [p \in ParamNames |->
                                  IF o.enabled[p] THEN up[p].st ELSE o.rule[p]]]]

(* ---------------------------- the iterators ---------------------------- *)
(* order of the training pass of epoch e (shuffled anew for every pass;    *)
(* under a fixed seed the pass order is a function of the epoch)           *)
Order(e) == [i \in 1..TrainLen |-> ((i - 1 + e) % TrainLen) + 1]

(* iterator.next() of the repeating training iterator *)
NextBatch(it) ==
    LET iEnd == it.pos + Batchsize
    IN  IF iEnd >= TrainLen
        THEN [batch |-> SubSeq(Order(it.epoch), it.pos + 1, TrainLen)
                          \o SubSeq(Order(it.epoch + 1), 1, iEnd - TrainLen),
              after |-> [pos |-> iEnd - TrainLen, epoch |-> it.epoch + 1]]
        ELSE [batch |-> SubSeq(Order(it.epoch), it.pos + 1, iEnd),
              after |-> [pos |-> iEnd, epoch |-> it.epoch]]

(* args.process * args.prefetch > 1 selects the MultiprocessIterator *)
IteratorKind(a) ==
    IF a.process * a.prefetch > 1 THEN "MultiprocessIterator" ELSE "SerialIterator"

(* batch size of valid_iter *)
ValidBatchsize(gpus) == Batchsize \div Len(gpus)

(* the held-out samples follow the training samples *)
ValidBatch(pos, gpus) ==
    [i \in 1..Min(ValidBatchsize(gpus), ValidLen - pos) |-> TrainLen + pos + i]

(* ----------------------------- the updater ----------------------------- *)
CpuOnly(gpus) == gpus = <<-1>>

UpdaterKind(gpus) == IF CpuOnly(gpus) THEN "StandardUpdater" ELSE "ParallelUpdater"

DeviceName(i) == IF i = 1 THEN "main" ELSE ToString(i - 2)

(* devices = {str(name): gpu for name, gpu in zip(names, args.gpus)} *)
Devices(gpus) ==
    IF CpuOnly(gpus) THEN <<>>
    ELSE [i \in 1..Len(gpus) |-> [name |-> DeviceName(i), id |-> gpus[i]]]

(* batch[i::n], i counted from 1 here *)
Shard(b, i, n) ==
    IF i > Len(b) THEN <<>>
    ELSE [k \in 1..(((Len(b) - i) \div n) + 1) |-> b[i + (k - 1) * n]]

(* variant: the counter advances by the number of replicas *)
NextIterationPerDevice(it, n) == it + n

(* updater.iteration += 1, once per update() whatever the device count *)
NextIteration(it, n) == it + 1

(* variant: the trainer goes on before the counter is advanced *)
UpdateReturnedEarly(ph) == ph \in {"count", "returned"}

(* update() has returned to the trainer once the counter is advanced *)
UpdateReturned(ph) == ph = "returned"

(* ------------------------------ triggers ------------------------------- *)
ExtOrder == <<"evaluate", "log", "anneal", "snapshot">>

TriggerNames == {"stop", "evaluate", "log", "anneal", "snapshot"}

Period(name) ==
    CASE name = "stop"     -> StopIter
      [] name = "evaluate" -> EvaluateInterval
      [] name = "log"      -> ReportInterval
      [] name = "anneal"   -> AnnealInterval
      [] name = "snapshot" -> SnapshotInterval

(* variant: the stateless test, true at iteration 0 as well *)
IntervalFireModulo(prev, it, period) == it % period = 0

(* IntervalTrigger.__call__ in iteration units *)
IntervalFire(prev, it, period) == (prev \div period) # (it \div period)

(* variant: the value is computed before t is advanced *)
ExponentialShiftValueLate(init, t) == Alpha(init.num, init.den * Pow(ShiftRateDen, t - 1))

(* ExponentialShift('alpha', 0.5): value = init * rate ** t *)
ExponentialShiftValue(init, t) == Alpha(init.num, init.den * Pow(ShiftRateDen, t))

(* variant: the evaluation pass backpropagates and steps the optimizer *)
EvaluatorStepTraining(m, o, b) ==
    LET r == OptimizerUpdate(o, m, BatchGrad(m, b))
    IN  [model |-> r.model, opt |-> r.opt, loss |-> BatchLoss(m, b)]

(* Evaluator: eval_func under no_backprop_mode; reports the loss only *)
EvaluatorStep(m, o, b) == [model |-> m, opt |-> o, loss |-> BatchLoss(m, b)]

(* ------------------------------- state --------------------------------- *)
VARIABLES
    args,         \* parsed command line: gpus, process, prefetch, resume
    pc,           \* position of the script / of Trainer.run
    cuda,         \* GPU-only configuration applied, device made current
    updater,      \* kind of updater and its devices dictionary
    models,       \* parameters of every replica; models[1] is optimizer.target
    opt,          \* Adam: alpha, t, per-parameter rule state, enabled flags
    iter,         \* train_iter: kind, consumed position and epoch
    queue,        \* batches prefetched by the iterator's workers
    prod,         \* position of the prefetching side
    iteration,    \* updater.iteration
    phase,        \* progress of updater.update()
    dev,          \* replica whose forward / backward comes next
    stage,        \* per replica: what it has done in the current step
    batch,        \* batch of the current step
    grads,        \* per replica gradients
    trig,         \* IntervalTrigger state: previous iteration per trigger
    extIdx,       \* extension whose trigger is looked at next
    shift,        \* ExponentialShift: init, t, last value
    eval,         \* Evaluator pass: position, samples seen, summed loss
    report,       \* observations and number of log entries
    snapshotFile, \* the snapshot on disk, if any
    hist,         \* trainer state as first seen at the top of each iteration
    restarts      \* number of processes started from a snapshot

vars == <<args, pc, cuda, updater, models, opt, iter, queue, prod, iteration,
          phase, dev, stage, batch, grads, trig, extIdx, shift, eval, report,
          snapshotFile, hist, restarts>>

(* --gpus: a single negative value, or device ids in increasing order *)
GpuLists ==
    {<<-1>>, <<-2>>} \cup
    UNION {{g \in [1..n -> 0..(MaxDevices - 1)] :
              \A i, j \in 1..n : i < j => g[i] < g[j]} : n \in 1..MaxDevices}

(* --process: one process, or several *)
ProcessCounts == {1, 2}

InitModel == [student |-> StudentInit, teacher |-> TeacherPre, encoder |-> EncoderPre]

NoOptimizer == OptimizerSetup(Alpha(0, 1))

NoEval == [pos |-> 0, seen |-> 0, sum |-> 0]

(* what a freshly started process holds before the script builds anything *)
ProcessStart ==
    /\ pc' = "parsed"
    /\ cuda' = [configured |-> FALSE, device |-> <<>>]
    /\ updater' = [kind |-> "none", devices |-> <<>>]
    /\ models' = <<>>
    /\ opt' = NoOptimizer
    /\ iter' = [kind |-> "none", pos |-> 0, epoch |-> 0]
    /\ queue' = <<>>
    /\ prod' = [pos |-> 0, epoch |-> 0]
    /\ iteration' = 0
    /\ phase' = "idle"
    /\ dev' = 1
    /\ stage' = <<>>
    /\ batch' = <<>>
    /\ grads' = <<>>
    /\ trig' = [n \in TriggerNames |-> 0]
    /\ extIdx' = 1
    /\ shift' = [init |-> <<>>, t |-> 0, last |-> <<>>]
    /\ eval' = NoEval
    /\ report' = [train |-> 0, valid |-> 0, entries |-> 0]

Init ==
    /\ args \in [gpus : GpuLists, process : ProcessCounts,
                 prefetch : 1..MaxPrefetch, resume : {FALSE}]
    /\ pc = "parsed"
    /\ cuda = [configured |-> FALSE, device |-> <<>>]
    /\ updater = [kind |-> "none", devices |-> <<>>]
    /\ models = <<>>
    /\ opt = NoOptimizer
    /\ iter = [kind |-> "none", pos |-> 0, epoch |-> 0]
    /\ queue = <<>>
    /\ prod = [pos |-> 0, epoch |-> 0]
    /\ iteration = 0
    /\ phase = "idle"
    /\ dev = 1
    /\ stage = <<>>
    /\ batch = <<>>
    /\ grads = <<>>
    /\ trig = [n \in TriggerNames |-> 0]
    /\ extIdx = 1
    /\ shift = [init |-> <<>>, t |-> 0, last |-> <<>>]
    /\ eval = NoEval
    /\ report = [train |-> 0, valid |-> 0, entries |-> 0]
    /\ snapshotFile = <<>>
    /\ hist = [i \in 0..StopIter |-> <<>>]
    /\ restarts = 0

NReplicas == Len(models)

(* --------------------- script: lines 35 to 146 ------------------------- *)
(* GPU-only configuration, models, optimizer, iterators, updater, trainer. *)
(* get_device_from_id(args.gpus[0]).use() fails on a negative id.          *)
Construct ==
    /\ pc = "parsed"
    /\ LET cpu == CpuOnly(args.gpus)
           bad == ~cpu /\ args.gpus[1] < 0
       IN  /\ cuda' = [configured |-> ~cpu,
                       device |-> IF cpu \/ bad THEN <<>> ELSE <<args.gpus[1]>>]
           /\ pc' = IF bad THEN "aborted" ELSE "idle"
           /\ updater' = IF bad THEN updater
                         ELSE [kind |-> UpdaterKind(args.gpus),
                               devices |-> Devices(args.gpus)]
           /\ models' = IF bad THEN <<InitModel>>
                        ELSE [i \in 1..Len(args.gpus) |-> InitModel]
           /\ stage' = [i \in 1..Len(models') |-> "synced"]
           /\ grads' = [i \in 1..Len(models') |-> ZeroGrad]
    /\ opt' = DisableUpdate(DisableUpdate(
                  OptimizerSetup(InitialAlpha(args.gpus)), "teacher"), "encoder")
    /\ iter' = [kind |-> IteratorKind(args), pos |-> 0, epoch |-> 0]
    /\ UNCHANGED <<args, queue, prod, iteration, phase, dev, batch, trig, extIdx,
                   shift, eval, report, snapshotFile, hist, restarts>>

(* what trainer.serialize writes and reads *)
Serialize ==
    [iteration |-> iteration, iter |-> [pos |-> iter.pos, epoch |-> iter.epoch],
     optT |-> opt.t, rule |-> opt.rule, model |-> models[1], trig |-> trig,
     shiftT |-> shift.t, shiftLast |-> shift.last, entries |-> report.entries]

(* lines 148-149: load_npz(args.resume, trainer) restores optimizer.target, *)
(* the optimizer, the iterator, the counters, the triggers and extensions  *)
Resume ==
    /\ pc = "idle"
    /\ pc' = "ready"
    /\ IF args.resume
       THEN LET f == snapshotFile[1]
            IN  /\ iteration' = f.iteration
                /\ iter' = [iter EXCEPT !.pos = f.iter.pos, !.epoch = f.iter.epoch]
                /\ prod' = f.iter
                /\ queue' = <<>>
                /\ opt' = [opt EXCEPT !.t = f.optT, !.rule = f.rule]
                /\ models' = [models EXCEPT ![1] = f.model]
                /\ trig' = f.trig
                /\ shift' = [shift EXCEPT !.t = f.shiftT, !.last = f.shiftLast]
                /\ report' = [report EXCEPT !.entries = f.entries]
       ELSE UNCHANGED <<iteration, iter, prod, queue, opt, models, trig, shift, report>>
    /\ UNCHANGED <<args, cuda, updater, phase, dev, stage, batch, grads, extIdx,
                   eval, snapshotFile, hist, restarts>>

(* trainer.run(): the extensions' initializers (ExponentialShift.initialize) *)
TrainerRun ==
    /\ pc = "ready"
    /\ pc' = "loop"
    /\ LET init  == IF shift.init = <<>> THEN opt.alpha ELSE shift.init[1]
           value == IF shift.last # <<>> THEN shift.last[1] ELSE init
       IN  /\ shift' = [shift EXCEPT !.init = <<init>>, !.last = <<value>>]
           /\ opt' = [opt EXCEPT !.alpha = value]
    /\ UNCHANGED <<args, cuda, updater, models, iter, queue, prod, iteration,
                   phase, dev, stage, batch, grads, trig, extIdx, eval, report,
                   snapshotFile, hist, restarts>>

(* what resume determinism compares: counters, trigger and extension      *)
(* state, optimizer state and the student, at the top of an iteration      *)
View ==
    [iteration |-> iteration, epoch |-> iter.epoch, pos |-> iter.pos,
     student |-> models[1].student, alpha |-> opt.alpha, optT |-> opt.t,
     rule |-> opt.rule, shiftT |-> shift.t, trig |-> trig,
     entries |-> report.entries]

(* ------------------- Trainer.run: the training loop -------------------- *)
(* while not stop_trigger(self): ... update() *)
LoopTest ==
    /\ pc = "loop"
    /\ trig' = [trig EXCEPT !["stop"] = iteration]
    /\ hist' = IF hist[iteration] = <<>>
               THEN [hist EXCEPT ![iteration] = <<View>>] ELSE hist
    /\ IF IntervalFire(trig["stop"], iteration, Period("stop"))
       THEN pc' = "stopped" /\ phase' = phase
       ELSE pc' = "update" /\ phase' = "fetch"
    /\ UNCHANGED <<args, cuda, updater, models, opt, iter, queue, prod, iteration,
                   dev, stage, batch, grads, extIdx, shift, eval, report,
                   snapshotFile, restarts>>

(* a worker of the MultiprocessIterator puts the next batch in the queue *)
Prefetch ==
    /\ iter.kind = "MultiprocessIterator"
    /\ pc \in {"loop", "update", "ext", "call", "evaluating"}
    /\ Len(queue) < args.prefetch
    /\ LET n == NextBatch(prod)
       IN  /\ queue' = Append(queue, n)
           /\ prod' = n.after
    /\ UNCHANGED <<args, pc, cuda, updater, models, opt, iter, iteration, phase,
                   dev, stage, batch, grads, trig, extIdx, shift, eval, report,
                   snapshotFile, hist, restarts>>

(* update_core: batch = iterator.next(); gradients cleared *)
FetchBatch ==
    /\ phase = "fetch"
    /\ IF iter.kind = "MultiprocessIterator"
       THEN /\ queue # <<>>
            /\ batch' = Head(queue).batch
            /\ iter' = [iter EXCEPT !.pos = Head(queue).after.pos,
                                    !.epoch = Head(queue).after.epoch]
            /\ queue' = Tail(queue)
            /\ prod' = prod
       ELSE LET n == NextBatch(iter)
            IN  /\ batch' = n.batch
                /\ iter' = [iter EXCEPT !.pos = n.after.pos, !.epoch = n.after.epoch]
                /\ prod' = n.after
                /\ queue' = queue
    /\ phase' = "forward"
    /\ dev' = 1
    /\ stage' = [i \in 1..NReplicas |-> "start"]
    /\ grads' = [i \in 1..NReplicas |-> ZeroGrad]
    /\ UNCHANGED <<args, pc, cuda, updater, models, opt, iteration, trig, extIdx,
                   shift, eval, report, snapshotFile, hist, restarts>>

(* loss = loss_func(in_arrays) on replica dev, over its share of the batch *)
Forward ==
    /\ phase = "forward"
    /\ stage' = [stage EXCEPT ![dev] = "forward"]
    /\ report' = IF dev = 1
                 THEN [report EXCEPT !.train =
                          BatchLoss(models[1], Shard(batch, 1, NReplicas))]
                 ELSE report
    /\ IF dev < NReplicas
       THEN dev' = dev + 1 /\ phase' = phase
       ELSE dev' = 1 /\ phase' = "backward"
    /\ UNCHANGED <<args, pc, cuda, updater, models, opt, iter, queue, prod,
                   iteration, batch, grads, trig, extIdx, shift, eval,
                   snapshotFile, hist, restarts>>

(* loss.backward() on replica dev *)
Backward ==
    /\ phase = "backward"
    /\ stage' = [stage EXCEPT ![dev] = "backward"]
    /\ grads' = [grads EXCEPT ![dev] =
                    BatchGrad(models[dev], Shard(batch, dev, NReplicas))]
    /\ IF dev < NReplicas
       THEN dev' = dev + 1 /\ phase' = phase
       ELSE /\ dev' = 1
            /\ phase' = IF updater.kind = "ParallelUpdater" THEN "reduce" ELSE "update"
    /\ UNCHANGED <<args, pc, cuda, updater, models, opt, iter, queue, prod,
                   iteration, batch, trig, extIdx, shift, eval, report,
                   snapshotFile, hist, restarts>>

RECURSIVE SumGrads(_, _)
SumGrads(gs, n) == IF n = 0 THEN ZeroGrad ELSE AddGrads(SumGrads(gs, n - 1), gs[n])

(* model_main.addgrads(model) for every other replica *)
Reduce ==
    /\ phase = "reduce"
    /\ grads' = [grads EXCEPT ![1] = SumGrads(grads, NReplicas)]
    /\ phase' = "update"
    /\ UNCHANGED <<args, pc, cuda, updater, models, opt, iter, queue, prod,
                   iteration, dev, stage, batch, trig, extIdx, shift, eval, report,
                   snapshotFile, hist, restarts>>

(* optimizer.update() on optimizer.target *)
Update ==
    /\ phase = "update"
    /\ LET r == OptimizerUpdate(opt, models[1], grads[1])
       IN  /\ models' = [models EXCEPT ![1] = r.model]
           /\ opt' = r.opt
    /\ phase' = IF updater.kind = "ParallelUpdater" THEN "broadcast" ELSE "count"
    /\ UNCHANGED <<args, pc, cuda, updater, iter, queue, prod, iteration, dev,
                   stage, batch, grads, trig, extIdx, shift, eval, report,
                   snapshotFile, hist, restarts>>

(* model.copyparams(model_main) for every other replica *)
Broadcast ==
    /\ phase = "broadcast"
    /\ models' = [i \in 1..NReplicas |-> models[1]]
    /\ stage' = [i \in 1..NReplicas |-> "synced"]
    /\ phase' = "count"
    /\ UNCHANGED <<args, pc, cuda, updater, opt, iter, queue, prod, iteration, dev,
                   batch, grads, trig, extIdx, shift, eval, report,
                   snapshotFile, hist, restarts>>

(* StandardUpdater.update: self.iteration += 1 after update_core *)
CountIteration ==
    /\ phase = "count"
    /\ iteration' = NextIteration(iteration, NReplicas)
    /\ phase' = "returned"
    /\ UNCHANGED <<args, pc, cuda, updater, models, opt, iter, queue, prod, dev,
                   stage, batch, grads, trig, extIdx, shift, eval, report,
                   snapshotFile, hist, restarts>>

(* the trainer goes on to its extensions when update() has returned *)
UpdateReturn ==
    /\ pc = "update"
    /\ UpdateReturned(phase)
    /\ pc' = "ext"
    /\ extIdx' = 1
    /\ UNCHANGED <<args, cuda, updater, models, opt, iter, queue, prod, iteration,
                   phase, dev, stage, batch, grads, trig, shift, eval, report,
                   snapshotFile, hist, restarts>>

(* ------------------------- the extensions ------------------------------ *)
(* for name, entry in extensions: if entry.trigger(self): ...  The order   *)
(* is by priority: Evaluator, LogReport, ExponentialShift, snapshot.       *)
TriggerCheck ==
    /\ pc = "ext"
    /\ LET name == ExtOrder[extIdx]
       IN  /\ trig' = [trig EXCEPT ![name] = iteration]
           /\ IF IntervalFire(trig[name], iteration, Period(name))
              THEN pc' = "call" /\ extIdx' = extIdx
              ELSE IF extIdx = Len(ExtOrder)
                   THEN pc' = "loop" /\ extIdx' = 1
                   ELSE pc' = "ext" /\ extIdx' = extIdx + 1
    /\ UNCHANGED <<args, cuda, updater, models, opt, iter, queue, prod, iteration,
                   phase, dev, stage, batch, grads, shift, eval, report,
                   snapshotFile, hist, restarts>>

(* the extension returns and the loop over the extensions goes on *)
ExtReturn ==
    IF extIdx = Len(ExtOrder)
    THEN pc' = "loop" /\ extIdx' = 1
    ELSE pc' = "ext" /\ extIdx' = extIdx + 1

(* ExponentialShift.__call__ *)
Anneal ==
    /\ pc = "call"
    /\ ExtOrder[extIdx] = "anneal"
    /\ LET t     == shift.t + 1
           value == ExponentialShiftValue(shift.init[1], t)
       IN  /\ shift' = [shift EXCEPT !.t = t, !.last = <<value>>]
           /\ opt' = [opt EXCEPT !.alpha = value]
    /\ ExtReturn
    /\ UNCHANGED <<args, cuda, updater, models, iter, queue, prod, iteration,
                   phase, dev, stage, batch, grads, trig, eval, report,
                   snapshotFile, hist, restarts>>

(* LogReport: one more entry of the accumulated observations *)
Log ==
    /\ pc = "call"
    /\ ExtOrder[extIdx] = "log"
    /\ report' = [report EXCEPT !.entries = report.entries + 1]
    /\ ExtReturn
    /\ UNCHANGED <<args, cuda, updater, models, opt, iter, queue, prod, iteration,
                   phase, dev, stage, batch, grads, trig, shift, eval,
                   snapshotFile, hist, restarts>>

(* extensions.snapshot(): the whole trainer is written *)
Snapshot ==
    /\ pc = "call"
    /\ ExtOrder[extIdx] = "snapshot"
    /\ snapshotFile' = <<Serialize>>
    /\ ExtReturn
    /\ UNCHANGED <<args, cuda, updater, models, opt, iter, queue, prod, iteration,
                   phase, dev, stage, batch, grads, trig, shift, eval, report,
                   hist, restarts>>

(* Evaluator.evaluate: the held-out iterator is reset *)
EvalBegin ==
    /\ pc = "call"
    /\ ExtOrder[extIdx] = "evaluate"
    /\ pc' = "evaluating"
    /\ eval' = NoEval
    /\ UNCHANGED <<args, cuda, updater, models, opt, iter, queue, prod, iteration,
                   phase, dev, stage, batch, grads, trig, extIdx, shift, report,
                   snapshotFile, hist, restarts>>

(* one batch of the held-out split through the target link *)
EvalBatch ==
    /\ pc = "evaluating"
    /\ eval.pos < ValidLen
    /\ LET b == ValidBatch(eval.pos, args.gpus)
           r == EvaluatorStep(models[1], opt, b)
       IN  /\ models' = [models EXCEPT ![1] = r.model]
           /\ opt' = r.opt
           /\ eval' = [pos |-> eval.pos + Len(b), seen |-> eval.seen + Len(b),
                       sum |-> eval.sum + r.loss * Len(b)]
    /\ UNCHANGED <<args, pc, cuda, updater, iter, queue, prod, iteration, phase,
                   dev, stage, batch, grads, trig, extIdx, shift, report,
                   snapshotFile, hist, restarts>>

(* the iterator (repeat=False) is exhausted: the mean is reported *)
EvalEnd ==
    /\ pc = "evaluating"
    /\ eval.pos >= ValidLen
    /\ report' = [report EXCEPT !.valid = eval.sum \div eval.seen]
    /\ ExtReturn
    /\ UNCHANGED <<args, cuda, updater, models, opt, iter, queue, prod, iteration,
                   phase, dev, stage, batch, grads, trig, shift, eval,
                   snapshotFile, hist, restarts>>

(* a new process is started with --resume on the snapshot on disk *)
Restart ==
    /\ snapshotFile # <<>>
    /\ restarts < MaxRestarts
    /\ pc # "parsed"
    /\ args' = [args EXCEPT !.resume = TRUE]
    /\ restarts' = restarts + 1
    /\ ProcessStart
    /\ UNCHANGED <<snapshotFile, hist>>

Program ==
    \/ Construct
    \/ Resume
    \/ TrainerRun
    \/ LoopTest
    \/ Prefetch
    \/ FetchBatch
    \/ Forward
    \/ Backward
    \/ Reduce
    \/ Update
    \/ Broadcast
    \/ CountIteration
    \/ UpdateReturn
    \/ TriggerCheck
    \/ Anneal
    \/ Log
    \/ Snapshot
    \/ EvalBegin
    \/ EvalBatch
    \/ EvalEnd

Next == Program \/ Restart

Spec == Init /\ [][Next]_vars

(* the interpreter runs the script on and the workers are scheduled *)
FairSpec == Spec /\ WF_vars(Program)

(* ============================ properties =============================== *)
SameProcess == restarts' = restarts

InLoop == pc \in {"loop", "update", "ext", "call", "evaluating", "stopped"}

InExtension == pc \in {"ext", "call", "evaluating"}

StepPhases == {"fetch", "forward", "backward", "reduce", "update", "broadcast", "count"}

SingleNegative(gpus) == Len(gpus) = 1 /\ gpus[1] < 0

(* C1: on every replica the teacher and the encoder keep the values they   *)
(* were loaded with, through any number of steps, evaluations, anneals,    *)
(* logs, snapshots and resumes; only the student is moved by the optimizer *)
C1_FreezeInvariant ==
    \A d \in 1..Len(models) :
        models[d].teacher = TeacherPre /\ models[d].encoder = EncoderPre

C1_Witness ==
    /\ pc = "stopped"
    /\ NReplicas = MaxDevices
    /\ iteration = StopIter
    /\ models[1].student # StudentInit
    /\ grads[1].teacher # 0
    /\ grads[1].encoder # 0

(* C2: inside a run the iteration counter changes only when an update      *)
(* step completes, and then by exactly 1, whatever the number of replicas  *)
C2_CounterByOne ==
    [][(SameProcess /\ pc # "idle") =>
          IF phase = "count" /\ phase' = "returned"
          THEN iteration' = iteration + 1
          ELSE iteration' = iteration]_vars

C2_Witness ==
    /\ NReplicas = MaxDevices
    /\ NReplicas > 1
    /\ iteration = StopIter
    /\ report.valid > 0
    /\ shift.t > 0
    /\ report.entries > 0
    /\ snapshotFile # <<>>

(* C3: while the evaluation pass runs, no parameter of any replica, no     *)
(* optimizer state and not the iteration counter changes                   *)
C3_EvaluationPure ==
    [][(SameProcess /\ pc \in {"call", "evaluating"} /\ ExtOrder[extIdx] = "evaluate")
          => (models' = models /\ opt' = opt /\ iteration' = iteration)]_vars

C3_Witness ==
    /\ pc = "evaluating"
    /\ eval.pos >= ValidLen
    /\ eval.sum > 0
    /\ iteration >= EvaluateInterval
    /\ models[1].student # StudentInit

(* C4: inside the loop alpha changes only when the annealing extension is  *)
(* called, each call halves it, and at the top of iteration i it is the    *)
(* initial value times 0.5^k for the k = i div AnnealInterval firings      *)
C4_AnnealingSchedule ==
    /\ [](pc = "loop" =>
            opt.alpha = Alpha(Lr, Len(args.gpus) * Pow(2, iteration \div AnnealInterval)))
    /\ [][(SameProcess /\ InLoop) =>
            IF pc = "call" /\ ExtOrder[extIdx] = "anneal" /\ pc' # "call"
            THEN /\ 2 * opt.alpha.den * opt'.alpha.num = opt.alpha.num * opt'.alpha.den
                 /\ shift'.t = shift.t + 1
            ELSE opt'.alpha = opt.alpha]_vars

C4_Witness ==
    /\ pc = "loop"
    /\ shift.t = 2
    /\ restarts > 0
    /\ opt.alpha = Alpha(Lr, 4 * Len(args.gpus))

(* C5: at the top of every iteration a run holds the counters, trigger and *)
(* extension state, alpha, optimizer state and student that the first run  *)
(* through that iteration held, resumed from a snapshot or not             *)
C5_ResumeDeterminism ==
    (pc = "loop" /\ hist[iteration] # <<>>) => View = hist[iteration][1]

(* the same restricted to one replica, where it holds *)
ResumeDeterminismOneReplica ==
    (pc = "loop" /\ hist[iteration] # <<>> /\ NReplicas = 1)
        => View = hist[iteration][1]

(* C6: gradients are reduced only after every replica has run forward and  *)
(* backward, the update is applied once per step on the main replica, and  *)
(* from the start of a step until the update all replicas hold the same    *)
(* parameters                                                              *)
C6_Barrier ==
    /\ phase \in {"reduce", "update"} => \A d \in 1..NReplicas : stage[d] = "backward"
    /\ phase \in StepPhases =>
          opt.t = iteration + (IF phase \in {"broadcast", "count"} THEN 1 ELSE 0)
    /\ phase \in {"fetch", "forward", "backward", "reduce", "update"} =>
          \A d \in 1..NReplicas : models[d] = models[1]

(* the barrier without the claim on the replicas' parameters, which holds *)
BarrierOrder ==
    /\ phase \in {"reduce", "update"} => \A d \in 1..NReplicas : stage[d] = "backward"
    /\ phase \in StepPhases =>
          opt.t = iteration + (IF phase \in {"broadcast", "count"} THEN 1 ELSE 0)

(* C7: an extension (evaluation, anneal, log, snapshot) runs only when the *)
(* update has returned, parameters updated and counter advanced, and an    *)
(* update step is in progress only while the trainer is in update()        *)
C7_NoOverlap ==
    /\ InExtension => (phase = "returned" /\ opt.t = iteration)
    /\ phase \in StepPhases => pc = "update"

C7_Witness ==
    /\ pc = "evaluating"
    /\ eval.pos > 0
    /\ iter.kind = "MultiprocessIterator"
    /\ Len(queue) = MaxPrefetch
    /\ NReplicas > 1

(* C8: the first step of a fresh run moves the student as far as the first *)
(* step of the single-device run does on the same batch                    *)
FirstBatch == NextBatch([pos |-> 0, epoch |-> 0]).batch

SingleDeviceStep ==
    LET o == DisableUpdate(DisableUpdate(OptimizerSetup(InitialAlpha(<<-1>>)),
                                         "teacher"), "encoder")
        r == OptimizerUpdate(o, InitModel, BatchGrad(InitModel, FirstBatch))
    IN  Abs(r.model.student - StudentInit)

C8_StepSizeInvariant ==
    (restarts = 0 /\ opt.t = 1 /\ iteration = 1)
        => Abs(models[1].student - StudentInit) = SingleDeviceStep

(* C9: a device list of one negative value gives the CPU-only run          *)
(* (StandardUpdater, no device made current, no GPU-only configuration);   *)
(* any other list gives the ParallelUpdater over exactly the listed devices *)
C9_DeviceSelector ==
    pc # "parsed" =>
        IF SingleNegative(args.gpus)
        THEN /\ updater.kind = "StandardUpdater"
             /\ cuda.device = <<>>
             /\ ~cuda.configured
        ELSE /\ updater.kind = "ParallelUpdater"
             /\ [i \in 1..Len(updater.devices) |-> updater.devices[i].id] = args.gpus

(* C10: the script starts before anything is built; once the loop is       *)
(* entered the run reaches "stopped"; it is stopped only at a positive     *)
(* multiple of the stop period, with every sample of the wrapped training  *)
(* passes consumed; nothing changes once stopped; and an evaluation pass   *)
(* ends after exactly one traversal of the held-out split                  *)
C10_Termination ==
    /\ pc = "parsed" /\ iteration = 0
    /\ (pc = "loop") ~> (pc = "stopped")
    /\ [](pc = "stopped" =>
            /\ iteration > 0 /\ iteration % StopIter = 0
            /\ iter.epoch * TrainLen + iter.pos = iteration * Batchsize)
    /\ [][(SameProcess /\ pc = "stopped") =>
            UNCHANGED <<pc, iteration, models, opt, report, shift, snapshotFile>>]_vars
    /\ [](pc = "evaluating" => eval.seen = eval.pos /\ eval.pos <= ValidLen)
    /\ [][(SameProcess /\ pc = "evaluating" /\ pc' # "evaluating")
            => eval.seen = ValidLen]_vars

C10_Witness ==
    /\ pc = "stopped"
    /\ iter.epoch >= 2
    /\ report.valid > 0
    /\ iteration = StopIter

====
